---- MODULE Spec2Model ----
(***************************************************************************)
(* Model of src/src/models/algae_model.py: the three input records, the    *)
(* AlgaeCarbonSequestrationModel instance and its calculation methods,     *)
(* and the caller operations of src/test_model.py that build, mutate and   *)
(* evaluate them.                                                          *)
(*                                                                         *)
(* Numbers.  The program computes in IEEE doubles.  The model computes in  *)
(* exact rational arithmetic: a number is a record [n, d] in lowest terms  *)
(* with d > 0, and float('inf') is the record INF with d = 0.  The two     *)
(* transcendental values of the program are modelled consistently with     *)
(* each other: np.log(2) is the rational LN2, and np.exp(x) is             *)
(* 2^(x / LN2), exact where x / LN2 is an integer and linearly             *)
(* interpolated between neighbouring integers, and 0 where the double      *)
(* result underflows to 0.0.                                               *)
(***************************************************************************)
EXTENDS Integers, Sequences, FiniteSets, TLC

----------------------------------------------------------------------------
(* Rational arithmetic *)

Abs(x) == IF x < 0 THEN -x ELSE x

RECURSIVE GCD(_, _)
GCD(a, b) == IF b = 0 THEN a ELSE GCD(b, a % b)

Rat(n, d) ==
    LET g == GCD(Abs(n), Abs(d))
        s == IF d < 0 THEN -1 ELSE 1
    IN  [n |-> s * (n \div g), d |-> s * (d \div g)]

Int2R(k) == [n |-> k, d |-> 1]

Zero == Int2R(0)

One == Int2R(1)

INF == [n |-> 1, d |-> 0]

RNeg(a) == [n |-> -a.n, d |-> a.d]

RMul(a, b) ==
    LET g1 == GCD(Abs(a.n), b.d)
        g2 == GCD(Abs(b.n), a.d)
    IN  IF a.n = 0 \/ b.n = 0 THEN Zero
        ELSE [n |-> (a.n \div g1) * (b.n \div g2), d |-> (a.d \div g2) * (b.d \div g1)]

RInv(b) == IF b.d = 0 THEN Zero
           ELSE IF b.n < 0 THEN [n |-> -b.d, d |-> -b.n] ELSE [n |-> b.d, d |-> b.n]

RDiv(a, b) == RMul(a, RInv(b))

RAdd(a, b) ==
    LET g == GCD(a.d, b.d)
    IN  Rat(a.n * (b.d \div g) + b.n * (a.d \div g), (a.d \div g) * b.d)

RSub(a, b) == RAdd(a, RNeg(b))

RLt(a, b) ==
    LET g == GCD(a.d, b.d)
    IN  a.n * (b.d \div g) < b.n * (a.d \div g)

RLe(a, b) == ~RLt(b, a)

RSq(a) == RMul(a, a)

\* a * b / c.  The quotient b / c is formed first: the same value in exact
\* arithmetic, with a smaller intermediate result.
RMulDiv(a, b, c) == RMul(a, RDiv(b, c))

\* Python max(0, x) and min(1, x): the second argument wins only when it is
\* strictly greater (smaller).
PyMax(a, b) == IF RLt(a, b) THEN b ELSE a

PyMin(a, b) == IF RLt(b, a) THEN b ELSE a

Floor(a) == a.n \div a.d

RECURSIVE Pow2(_)
Pow2(k) == IF k = 0 THEN 1 ELSE 2 * Pow2(k - 1)

RECURSIVE Pow10(_)
Pow10(k) == IF k = 0 THEN 1 ELSE 10 * Pow10(k - 1)

\* np.log(2) = 0.693147...
LN2 == Rat(7, 10)

\* np.exp underflows to 0.0 below about -745.13
EXP_UNDERFLOW == 745

\* 2^fl * (1 + fr) for y = fl + fr, fl an integer and 0 <= fr < 1.
exp2_parts(y, fl) ==
    RMul(IF fl >= 0 THEN Int2R(Pow2(fl)) ELSE [n |-> 1, d |-> Pow2(-fl)],
         RAdd(One, RSub(y, Int2R(fl))))

exp2(y) == exp2_parts(y, Floor(y))

np_exp(x) ==
    IF RLt(x, Int2R(-EXP_UNDERFLOW)) THEN Zero
    ELSE exp2(RDiv(x, LN2))

----------------------------------------------------------------------------
(* AlgaeCarbonSequestrationModel: the calculation methods.  self is the     *)
(* instance: its three record references and its two constants.            *)

D(n, k) == Rat(n, k)

\* Variant whose cutoff includes the two ends of the optimal range.
_temperature_response_factor_closed(self) ==
    LET temp     == self.environment.surface_temperature_celsius
        opt_min  == self.strain.optimal_temperature_range[1]
        opt_max  == self.strain.optimal_temperature_range[2]
        opt_temp == RDiv(RAdd(opt_min, opt_max), Int2R(2))
    IN  IF RLe(temp, opt_min) \/ RLe(opt_max, temp) THEN Zero
        ELSE IF temp = opt_temp THEN One
        ELSE RSub(One, RSq(RDiv(RSub(temp, opt_temp), RSub(opt_max, opt_min))))

_temperature_response_factor(self) ==
    LET temp     == self.environment.surface_temperature_celsius
        opt_min  == self.strain.optimal_temperature_range[1]
        opt_max  == self.strain.optimal_temperature_range[2]
        opt_temp == RDiv(RAdd(opt_min, opt_max), Int2R(2))
    IN  IF RLt(temp, opt_min) \/ RLt(opt_max, temp) THEN Zero
        ELSE IF temp = opt_temp THEN One
        ELSE RSub(One, RSq(RDiv(RSub(temp, opt_temp), RSub(opt_max, opt_min))))

\* Variant whose floor below 10 m is 0.2, above the start of the ramp.
_light_limitation_factor_high_floor(self) ==
    LET euphotic_depth == self.environment.euphotic_depth_m
    IN  IF RLt(euphotic_depth, Int2R(10)) THEN D(2, 10)
        ELSE IF RLt(Int2R(100), euphotic_depth) THEN One
        ELSE RAdd(D(1, 10),
                  RDiv(RMul(D(9, 10), RSub(euphotic_depth, Int2R(10))), Int2R(90)))

_light_limitation_factor(self) ==
    LET euphotic_depth == self.environment.euphotic_depth_m
    IN  IF RLt(euphotic_depth, Int2R(10)) THEN D(1, 10)
        ELSE IF RLt(Int2R(100), euphotic_depth) THEN One
        ELSE RAdd(D(1, 10),
                  RDiv(RMul(D(9, 10), RSub(euphotic_depth, Int2R(10))), Int2R(90)))

\* Variant that takes the minimum over nitrogen and phosphorus only.
_nutrient_limitation_factor_no_iron(self) ==
    LET n_factor  == PyMin(One, RDiv(self.environment.nutrient_nitrogen_umol_per_l, Int2R(5)))
        p_factor  == PyMin(One, RDiv(self.environment.nutrient_phosphorus_umol_per_l, D(3, 10)))
    IN  PyMin(n_factor, p_factor)

_nutrient_limitation_factor(self) ==
    LET n_factor  == PyMin(One, RDiv(self.environment.nutrient_nitrogen_umol_per_l, Int2R(5)))
        p_factor  == PyMin(One, RDiv(self.environment.nutrient_phosphorus_umol_per_l, D(3, 10)))
        fe_factor == PyMin(One, RDiv(self.environment.nutrient_iron_nmol_per_l, D(6, 100)))
    IN  PyMin(PyMin(n_factor, p_factor), fe_factor)

\* Variant whose bell curve is not scaled by the width of the range.
_salinity_response_factor_unscaled(self) ==
    LET salinity == self.environment.salinity_ppt
        opt_min  == self.strain.optimal_salinity_range[1]
        opt_max  == self.strain.optimal_salinity_range[2]
        mid      == RDiv(RAdd(opt_min, opt_max), Int2R(2))
    IN  IF RLt(salinity, opt_min) \/ RLt(opt_max, salinity) THEN Zero
        ELSE IF salinity = mid THEN One
        ELSE RSub(One, RSq(RSub(salinity, mid)))

\* Variant whose cutoff also takes the two ends of the range.
_salinity_response_factor_closed(self) ==
    LET salinity == self.environment.salinity_ppt
        opt_min  == self.strain.optimal_salinity_range[1]
        opt_max  == self.strain.optimal_salinity_range[2]
        mid      == RDiv(RAdd(opt_min, opt_max), Int2R(2))
    IN  IF RLe(salinity, opt_min) \/ RLe(opt_max, salinity) THEN Zero
        ELSE IF salinity = mid THEN One
        ELSE RSub(One, RSq(RDiv(RSub(salinity, mid), RSub(opt_max, opt_min))))

_salinity_response_factor(self) ==
    LET salinity == self.environment.salinity_ppt
        opt_min  == self.strain.optimal_salinity_range[1]
        opt_max  == self.strain.optimal_salinity_range[2]
        mid      == RDiv(RAdd(opt_min, opt_max), Int2R(2))
    IN  IF RLt(salinity, opt_min) \/ RLt(opt_max, salinity) THEN Zero
        ELSE IF salinity = mid THEN One
        ELSE RSub(One, RSq(RDiv(RSub(salinity, mid), RSub(opt_max, opt_min))))

\* np.log(2) / (doubling_time_hours / 24)
base_growth_rate(self) == RDiv(LN2, RDiv(self.strain.doubling_time_hours, Int2R(24)))

\* Variant that leaves the temperature factor out of the product.
calculate_growth_rate_no_temp(self) ==
    PyMax(Zero,
          RMul(RMul(RMul(base_growth_rate(self),
                         _light_limitation_factor(self)),
                    _nutrient_limitation_factor(self)),
               _salinity_response_factor(self)))

\* Variant that scales the product by the strain's photosynthetic efficiency.
calculate_growth_rate_with_efficiency(self) ==
    PyMax(Zero,
          RMul(RMul(RMul(RMul(RMul(base_growth_rate(self),
                                   _temperature_response_factor(self)),
                              _light_limitation_factor(self)),
                         _nutrient_limitation_factor(self)),
                    _salinity_response_factor(self)),
               self.strain.photosynthetic_efficiency))

\* Variant that returns the product without flooring it at 0.
calculate_growth_rate_no_floor(self) ==
    RMul(RMul(RMul(RMul(base_growth_rate(self),
                        _temperature_response_factor(self)),
                   _light_limitation_factor(self)),
              _nutrient_limitation_factor(self)),
         _salinity_response_factor(self))

\* max(0, base_growth_rate * temp_factor * light_factor * nutrient_factor
\*        * salinity_factor)
calculate_growth_rate(self) ==
    PyMax(Zero,
          RMul(RMul(RMul(RMul(base_growth_rate(self),
                              _temperature_response_factor(self)),
                         _light_limitation_factor(self)),
                    _nutrient_limitation_factor(self)),
               _salinity_response_factor(self)))

\* max(0, growth_rate * biomass_density * mixed_layer_depth * DAYS_PER_YEAR),
\* with biomass_density = 1.0
calculate_net_primary_productivity(self) ==
    PyMax(Zero,
          RMul(RMul(RMul(calculate_growth_rate(self), One),
                    self.environment.mixing_depth_m),
               self.DAYS_PER_YEAR))

\* sequestration_depth_m / sinking_rate_m_per_day divides two Python numbers:
\* a zero sinking rate raises ZeroDivisionError.
carbon_export_raises(self) == self.strain.sinking_rate_m_per_day = Zero

sinking_time_days(self) ==
    RDiv(self.environment.sequestration_depth_m, self.strain.sinking_rate_m_per_day)

\* np.exp(-remineralization_rate_per_day * sinking_time_days), rate 0.1
survival_fraction(self) == np_exp(RMul(RNeg(D(1, 10)), sinking_time_days(self)))

\* export_carbon * survival_fraction, export_carbon = npp * export_fraction
calculate_carbon_export(self) ==
    RMul(RMul(calculate_net_primary_productivity(self), self.strain.export_fraction),
         survival_fraction(self))

\* carbon_export_per_m2 * area_m2 / 1000, area_m2 = area_km2 * 1e6
calculate_total_carbon_sequestered(self) ==
    RMulDiv(calculate_carbon_export(self),
            RMul(self.operations.area_km2, Int2R(1000000)),
            Int2R(1000))

\* Variant that reports the carbon mass itself, without the CO2 ratio.
calculate_co2_removed_as_carbon(self) ==
    RDiv(calculate_total_carbon_sequestered(self), Int2R(1000))

\* carbon_kg * CARBON_TO_CO2_RATIO / 1000
calculate_co2_removed(self) ==
    RMulDiv(calculate_total_carbon_sequestered(self), self.CARBON_TO_CO2_RATIO, Int2R(1000))

\* (target_npp - current_npp) / carbon_content_percent divides two Python
\* numbers when the branch is reached.
biomass_required_raises(self) ==
    /\ RLt(calculate_net_primary_productivity(self), Int2R(125))
    /\ self.strain.carbon_content_percent = Zero

\* The body of calculate_biomass_required once current_npp is bound.
biomass_required_body(self, current_npp) ==
    LET target_npp == Int2R(125)
    IN  IF RLe(target_npp, current_npp) THEN Zero
        ELSE LET biomass_needed_per_m2 ==
                     RMul(RDiv(RSub(target_npp, current_npp),
                               self.strain.carbon_content_percent), Int2R(100))
                 area_m2 == RMul(self.operations.area_km2, Int2R(1000000))
             IN  RMulDiv(biomass_needed_per_m2, area_m2, Int2R(1000))

\* Variant that asks for no seeding biomass where nothing grows.
calculate_biomass_required_none_without_growth(self) ==
    IF calculate_net_primary_productivity(self) = Zero THEN Zero
    ELSE biomass_required_body(self, calculate_net_primary_productivity(self))

calculate_biomass_required(self) ==
    biomass_required_body(self, calculate_net_primary_productivity(self))

\* Variant that charges the vessel per km2 of deployment area.
operational_costs_body_vessel_per_km2(self, biomass_required) ==
    LET cultivation_cost == RMul(biomass_required, self.operations.cultivation_cost_per_kg)
        delivery_cost    == RMul(biomass_required, self.operations.delivery_cost_per_kg)
        vessel_cost      == RMul(RMul(self.operations.vessel_cost_per_day, self.DAYS_PER_YEAR),
                                 self.operations.area_km2)
        monitoring_cost  == self.operations.monitoring_cost_per_year
        regulatory_cost  == self.operations.regulatory_cost_per_year
        r_and_d_cost     == RDiv(RMul(self.strain.r_and_d_cost_millions, Int2R(1000000)),
                                 Int2R(10))
        total_cost == RAdd(RAdd(RAdd(RAdd(RAdd(cultivation_cost, delivery_cost), vessel_cost),
                                     monitoring_cost), regulatory_cost), r_and_d_cost)
    IN  [cultivation |-> cultivation_cost,
         delivery    |-> delivery_cost,
         vessel      |-> vessel_cost,
         monitoring  |-> monitoring_cost,
         regulatory  |-> regulatory_cost,
         r_and_d     |-> r_and_d_cost,
         total       |-> total_cost]

\* Variant whose total leaves the R&D component out.
operational_costs_body_no_r_and_d(self, biomass_required) ==
    LET cultivation_cost == RMul(biomass_required, self.operations.cultivation_cost_per_kg)
        delivery_cost    == RMul(biomass_required, self.operations.delivery_cost_per_kg)
        vessel_cost      == RMul(self.operations.vessel_cost_per_day, self.DAYS_PER_YEAR)
        monitoring_cost  == self.operations.monitoring_cost_per_year
        regulatory_cost  == self.operations.regulatory_cost_per_year
        r_and_d_cost     == RDiv(RMul(self.strain.r_and_d_cost_millions, Int2R(1000000)),
                                 Int2R(10))
        total_cost == RAdd(RAdd(RAdd(RAdd(cultivation_cost, delivery_cost), vessel_cost),
                                monitoring_cost), regulatory_cost)
    IN  [cultivation |-> cultivation_cost,
         delivery    |-> delivery_cost,
         vessel      |-> vessel_cost,
         monitoring  |-> monitoring_cost,
         regulatory  |-> regulatory_cost,
         r_and_d     |-> r_and_d_cost,
         total       |-> total_cost]

calculate_operational_costs_no_r_and_d(self) ==
    operational_costs_body_no_r_and_d(self, calculate_biomass_required(self))

calculate_operational_costs_vessel_per_km2(self) ==
    operational_costs_body_vessel_per_km2(self, calculate_biomass_required(self))

\* The body of calculate_operational_costs once biomass_required is bound.
operational_costs_body(self, biomass_required) ==
    LET cultivation_cost == RMul(biomass_required, self.operations.cultivation_cost_per_kg)
        delivery_cost    == RMul(biomass_required, self.operations.delivery_cost_per_kg)
        vessel_cost      == RMul(self.operations.vessel_cost_per_day, self.DAYS_PER_YEAR)
        monitoring_cost  == self.operations.monitoring_cost_per_year
        regulatory_cost  == self.operations.regulatory_cost_per_year
        r_and_d_cost     == RDiv(RMul(self.strain.r_and_d_cost_millions, Int2R(1000000)),
                                 Int2R(10))
        total_cost == RAdd(RAdd(RAdd(RAdd(RAdd(cultivation_cost, delivery_cost), vessel_cost),
                                     monitoring_cost), regulatory_cost), r_and_d_cost)
    IN  [cultivation |-> cultivation_cost,
         delivery    |-> delivery_cost,
         vessel      |-> vessel_cost,
         monitoring  |-> monitoring_cost,
         regulatory  |-> regulatory_cost,
         r_and_d     |-> r_and_d_cost,
         total       |-> total_cost]

calculate_operational_costs(self) ==
    operational_costs_body(self, calculate_biomass_required(self))

\* Variant that reports a cost of 0 when nothing is removed.
cost_per_tonne_co2_body_zero(costs, co2_removed) ==
    IF RLe(co2_removed, Zero) THEN Zero
    ELSE RDiv(costs.total, co2_removed)

calculate_cost_per_tonne_co2_zero(self) ==
    cost_per_tonne_co2_body_zero(calculate_operational_costs(self),
                                 calculate_co2_removed(self))

\* The body of calculate_cost_per_tonne_co2 once costs and co2_removed are bound.
cost_per_tonne_co2_body(costs, co2_removed) ==
    IF RLe(co2_removed, Zero) THEN INF
    ELSE RDiv(costs.total, co2_removed)

calculate_cost_per_tonne_co2(self) ==
    cost_per_tonne_co2_body(calculate_operational_costs(self), calculate_co2_removed(self))

_calculate_viability_score(self, cost_per_tonne, co2_removed) ==
    IF RLe(cost_per_tonne, Zero) \/ RLe(co2_removed, Zero) THEN Zero
    ELSE LET cost_score   == PyMax(Zero, RSub(One, RDiv(RSub(cost_per_tonne, Int2R(50)),
                                                        Int2R(200))))
             scale_score  == PyMin(One, RDiv(co2_removed, Int2R(10000)))
             safety_score == IF self.strain.genetic_kill_switch THEN One ELSE D(1, 2)
         IN  RAdd(RAdd(RMul(cost_score, D(4, 10)), RMul(scale_score, D(4, 10))),
                  RMul(safety_score, D(2, 10)))

\* Variant that reports the per-m2 export in the carbon-sequestered field.
viability_metrics_body_export_per_m2(self, co2_removed, cost_per_tonne, costs) ==
    LET target_cost_per_tonne == Int2R(100)
        target_co2_removed    == Int2R(1000)
    IN  [co2_removed_tonnes_per_year    |-> co2_removed,
         cost_per_tonne_co2             |-> cost_per_tonne,
         total_cost_per_year            |-> costs.total,
         biomass_required_kg_per_year   |-> calculate_biomass_required(self),
         carbon_sequestered_kg_per_year |-> calculate_carbon_export(self),
         npp_g_c_per_m2_per_year        |-> calculate_net_primary_productivity(self),
         growth_rate_per_day            |-> calculate_growth_rate(self),
         viability_score                |-> _calculate_viability_score(self, cost_per_tonne,
                                                                       co2_removed),
         cost_competitiveness           |-> IF RLt(Zero, cost_per_tonne)
                                            THEN RDiv(target_cost_per_tonne, cost_per_tonne)
                                            ELSE Zero,
         scale_adequacy                 |-> RDiv(co2_removed, target_co2_removed)]

calculate_viability_metrics_export_per_m2(self) ==
    viability_metrics_body_export_per_m2(self, calculate_co2_removed(self), calculate_cost_per_tonne_co2(self),
                                         calculate_operational_costs(self))

\* The body of calculate_viability_metrics once its three locals are bound.
viability_metrics_body(self, co2_removed, cost_per_tonne, costs) ==
    LET target_cost_per_tonne == Int2R(100)
        target_co2_removed    == Int2R(1000)
    IN  [co2_removed_tonnes_per_year    |-> co2_removed,
         cost_per_tonne_co2             |-> cost_per_tonne,
         total_cost_per_year            |-> costs.total,
         biomass_required_kg_per_year   |-> calculate_biomass_required(self),
         carbon_sequestered_kg_per_year |-> calculate_total_carbon_sequestered(self),
         npp_g_c_per_m2_per_year        |-> calculate_net_primary_productivity(self),
         growth_rate_per_day            |-> calculate_growth_rate(self),
         viability_score                |-> _calculate_viability_score(self, cost_per_tonne,
                                                                       co2_removed),
         cost_competitiveness           |-> IF RLt(Zero, cost_per_tonne)
                                            THEN RDiv(target_cost_per_tonne, cost_per_tonne)
                                            ELSE Zero,
         scale_adequacy                 |-> RDiv(co2_removed, target_co2_removed)]

calculate_viability_metrics(self) ==
    viability_metrics_body(self, calculate_co2_removed(self), calculate_cost_per_tonne_co2(self),
                           calculate_operational_costs(self))

\* Python fixed-point formatting f"{x:.kf}": the value rounded to k decimal
\* places, kept as the integer number of units of 10^-k, or "inf".  Ties go
\* to the even neighbour.  The digits are produced one at a time: <<units,
\* remainder>> of n / d after k decimal places.
AddStep(p, r, d) ==
    IF p[2] >= d - r THEN <<p[1] + 1, p[2] - (d - r)>> ELSE <<p[1], p[2] + r>>

\* <<(10 * r) \div d, (10 * r) % d>> for 0 <= r < d, by ten additions.
RECURSIVE TimesTen(_, _, _)
TimesTen(r, d, i) == IF i = 0 THEN <<0, 0>> ELSE AddStep(TimesTen(r, d, i - 1), r, d)

NextDigit(units, t) == <<units * 10 + t[1], t[2]>>

ScaledStep(p, d) == NextDigit(p[1], TimesTen(p[2], d, 10))

RECURSIVE ScaledDivMod(_, _, _)
ScaledDivMod(n, d, k) ==
    IF k = 0 THEN <<n \div d, n % d>>
    ELSE ScaledStep(ScaledDivMod(n, d, k - 1), d)

RoundHalfEven(p, d) ==
    IF p[2] < d - p[2] THEN p[1]
    ELSE IF p[2] > d - p[2] THEN p[1] + 1
    ELSE IF p[1] % 2 = 0 THEN p[1] ELSE p[1] + 1

FormatFixed(x, k) ==
    IF x.d = 0 THEN [text |-> "inf", places |-> k]
    ELSE [units |-> RoundHalfEven(ScaledDivMod(x.n, x.d, k), x.d), places |-> k]

\* f"{x:.1%}"
FormatPercent(x, k) == FormatFixed(RMul(x, Int2R(100)), k)

\* The body of generate_report once metrics and costs are bound: the report
\* text as the sequence of its formatted values.
generate_report_body(self, metrics, costs) ==
    [Name                  |-> self.strain.name,
     CarbonContent         |-> FormatFixed(self.strain.carbon_content_percent, 1),
     DoublingTime          |-> FormatFixed(self.strain.doubling_time_hours, 1),
     ExportFraction        |-> FormatPercent(self.strain.export_fraction, 1),
     SinkingRate           |-> FormatFixed(self.strain.sinking_rate_m_per_day, 1),
     EuphoticDepth         |-> FormatFixed(self.environment.euphotic_depth_m, 0),
     SurfaceTemperature    |-> FormatFixed(self.environment.surface_temperature_celsius, 1),
     Salinity              |-> FormatFixed(self.environment.salinity_ppt, 1),
     SequestrationDepth    |-> FormatFixed(self.environment.sequestration_depth_m, 0),
     Area                  |-> FormatFixed(self.operations.area_km2, 1),
     ApplicationFrequency  |-> FormatFixed(self.operations.application_frequency_per_year, 1),
     CO2Removed            |-> FormatFixed(metrics.co2_removed_tonnes_per_year, 1),
     CostPerTonneCO2       |-> FormatFixed(metrics.cost_per_tonne_co2, 2),
     TotalAnnualCost       |-> FormatFixed(metrics.total_cost_per_year, 0),
     BiomassRequired       |-> FormatFixed(metrics.biomass_required_kg_per_year, 0),
     NPP                   |-> FormatFixed(metrics.npp_g_c_per_m2_per_year, 1),
     GrowthRate            |-> FormatFixed(metrics.growth_rate_per_day, 3),
     ViabilityScore        |-> FormatFixed(metrics.viability_score, 2),
     CostCompetitiveness   |-> FormatFixed(metrics.cost_competitiveness, 2),
     ScaleAdequacy         |-> FormatFixed(metrics.scale_adequacy, 2),
     Cultivation           |-> FormatFixed(costs.cultivation, 0),
     Delivery              |-> FormatFixed(costs.delivery, 0),
     VesselOperations      |-> FormatFixed(costs.vessel, 0),
     Monitoring            |-> FormatFixed(costs.monitoring, 0),
     Regulatory            |-> FormatFixed(costs.regulatory, 0),
     RAndD                 |-> FormatFixed(costs.r_and_d, 0)]

generate_report(self) ==
    generate_report_body(self, calculate_viability_metrics(self),
                         calculate_operational_costs(self))

----------------------------------------------------------------------------
(* State: the caller's three records, the model instance built on them,    *)
(* and what the caller got back from its calls.                            *)

VARIABLES
    strain,        \* the AlgaeStrain record the caller holds
    environment,   \* the EnvironmentalConditions record
    operations,    \* the OperationalParameters record
    model,         \* the AlgaeCarbonSequestrationModel instance, or NoModel
    returned,      \* value returned by the caller's last call, with the call and its inputs
    error,         \* exception raised by the last call, or "none"
    kept,          \* an earlier returned value the caller has kept
    threads,       \* the evaluations running concurrently, one per thread
    heap           \* the objects the preset functions have built, by reference

vars == <<strain, environment, operations, model, returned, error, kept, threads, heap>>

\* No evaluation runs beside the caller.
NoThreads == <<>>

\* No preset function has been called.
NoObjects == <<>>

\* No instance has been constructed yet.
NoModel == [constructed |-> FALSE]

\* The caller holds no returned value.
NoResult == [call |-> "none"]

\* Largest exponent e of the areas 10^e km2 the caller chooses from.
MaxAreaExp == 2

AreaValues == {Int2R(Pow10(e)) : e \in 0..MaxAreaExp}

\* AlgaeStrain(...), test_model.py:47-58 with round values.
BaseStrain ==
    [name                      |-> "Test Strain",
     carbon_content_percent    |-> Int2R(50),
     doubling_time_hours       |-> Int2R(24),
     photosynthetic_efficiency |-> Rat(8, 10),
     sinking_rate_m_per_day    |-> Int2R(50),
     export_fraction           |-> Rat(1, 2),
     optimal_temperature_range |-> <<Int2R(20), Int2R(30)>>,
     optimal_salinity_range    |-> <<Int2R(30), Int2R(40)>>,
     genetic_kill_switch       |-> TRUE,
     r_and_d_cost_millions     |-> Zero]

BaseEnvironment ==
    [euphotic_depth_m               |-> Int2R(100),
     surface_temperature_celsius    |-> Int2R(25),
     salinity_ppt                   |-> Int2R(35),
     nutrient_nitrogen_umol_per_l   |-> Int2R(5),
     nutrient_phosphorus_umol_per_l |-> Rat(3, 10),
     nutrient_iron_nmol_per_l       |-> Rat(6, 100),
     mixing_depth_m                 |-> Int2R(40),
     current_speed_m_per_s          |-> Rat(1, 10),
     sequestration_depth_m          |-> Int2R(1000)]

BaseOperations ==
    [area_km2                       |-> One,
     application_frequency_per_year |-> Int2R(4),
     cultivation_cost_per_kg        |-> Rat(5, 10),
     delivery_cost_per_kg           |-> Rat(3, 10),
     vessel_cost_per_day            |-> Int2R(5000),
     monitoring_cost_per_year       |-> Zero,
     regulatory_cost_per_year       |-> Zero]

\* Strains the caller may construct: the base strain with one field changed,
\* among them a slow sinker, degenerate optimal ranges and out-of-domain values.
StrainChoices ==
    {BaseStrain}
    \cup {[BaseStrain EXCEPT !.doubling_time_hours = Int2R(v)] : v \in {12, -24}}
    \cup {[BaseStrain EXCEPT !.sinking_rate_m_per_day = v] : v \in {Rat(1, 10), Zero}}
    \cup {[BaseStrain EXCEPT !.optimal_temperature_range = <<Int2R(25), Int2R(25)>>],
          [BaseStrain EXCEPT !.optimal_salinity_range = <<Int2R(35), Int2R(35)>>],
          [BaseStrain EXCEPT !.genetic_kill_switch = FALSE]}

EnvironmentChoices ==
    {[BaseEnvironment EXCEPT !.surface_temperature_celsius = Int2R(t),
                             !.salinity_ppt = Int2R(s),
                             !.euphotic_depth_m = Int2R(e),
                             !.nutrient_nitrogen_umol_per_l = Int2R(n)] :
        t \in {15, 20, 25, 30, 35}, s \in {35, 45}, e \in {5, 100}, n \in {0, 5}}
    \cup {[BaseEnvironment EXCEPT !.mixing_depth_m = Int2R(m)] : m \in {-40, 0}}
    \cup {[BaseEnvironment EXCEPT !.euphotic_depth_m = Int2R(e)] : e \in {-5, 0}}

\* A site whose productivity stays below the 125 g C/m2/year target, so that
\* seeding biomass is required while carbon is still removed.
LowNPPEnvironment ==
    [BaseEnvironment EXCEPT !.euphotic_depth_m = Int2R(5), !.mixing_depth_m = Int2R(4)]

OperationsChoices ==
    {[BaseOperations EXCEPT !.area_km2 = a, !.vessel_cost_per_day = Int2R(v)] :
        a \in AreaValues \cup {Zero, Int2R(-1)}, v \in {0, 5000}}

\* Operations with a small fixed cost, for the seeded site.
SeededOperationsChoices ==
    {[BaseOperations EXCEPT !.area_km2 = a, !.vessel_cost_per_day = Zero,
                            !.monitoring_cost_per_year = Int2R(m)] :
        a \in AreaValues, m \in {0, 1000}}

Scenarios ==
    (StrainChoices \X EnvironmentChoices \X OperationsChoices)
    \cup ({BaseStrain, [BaseStrain EXCEPT !.genetic_kill_switch = FALSE]}
          \X {LowNPPEnvironment} \X SeededOperationsChoices)

Init ==
    /\ \E sc \in Scenarios :
          /\ strain = sc[1]
          /\ environment = sc[2]
          /\ operations = sc[3]
    /\ model = NoModel
    /\ returned = NoResult
    /\ error = "none"
    /\ kept = NoResult
    /\ threads = NoThreads
    /\ heap = NoObjects

\* What the caller passed: the instance holds references to these records.
Inputs == [strain |-> strain, environment |-> environment, operations |-> operations]

\* The instance as its methods see it.
Self ==
    [strain              |-> strain,
     environment         |-> environment,
     operations          |-> operations,
     CARBON_TO_CO2_RATIO |-> model.CARBON_TO_CO2_RATIO,
     DAYS_PER_YEAR       |-> model.DAYS_PER_YEAR]

\* The attributes __init__ sets on a new instance built on the records in.
FreshInstance(in) ==
    [strain              |-> in.strain,
     environment         |-> in.environment,
     operations          |-> in.operations,
     CARBON_TO_CO2_RATIO |-> Rat(367, 100),
     DAYS_PER_YEAR       |-> Rat(1461, 4)]

\* Number of instances the caller constructs.
MaxInstances == 2

\* Identity of the current instance: instances are numbered as they are built.
InstanceId == IF model = NoModel THEN 0 ELSE model.id

\* model = AlgaeCarbonSequestrationModel(strain, environment, operations)
NewModel ==
    /\ InstanceId < MaxInstances
    /\ model' = [id                  |-> InstanceId + 1,
                 CARBON_TO_CO2_RATIO |-> Rat(367, 100),
                 DAYS_PER_YEAR       |-> Rat(1461, 4)]
    /\ error' = "none"
    /\ UNCHANGED <<strain, environment, operations, returned, kept, threads, heap>>

\* Variant in which the evaluation rounds the instance's DAYS_PER_YEAR.
CalculateViabilityMetricsRounding ==
    /\ model # NoModel
    /\ IF carbon_export_raises(Self) \/ biomass_required_raises(Self)
       THEN /\ error' = "ZeroDivisionError"
            /\ UNCHANGED <<returned, model>>
       ELSE /\ error' = "none"
            /\ returned' = [call |-> "calculate_viability_metrics", by |-> model.id,
                            in |-> Inputs, out |-> calculate_viability_metrics(Self)]
            /\ model' = [model EXCEPT !.DAYS_PER_YEAR = Int2R(365)]
    /\ UNCHANGED <<strain, environment, operations, kept, threads, heap>>

\* Variant in which the instance hands back the Metrics it returned last.
CalculateViabilityMetricsCached ==
    /\ model # NoModel
    /\ IF carbon_export_raises(Self) \/ biomass_required_raises(Self)
       THEN /\ error' = "ZeroDivisionError"
            /\ UNCHANGED returned
       ELSE /\ error' = "none"
            /\ returned' = [call |-> "calculate_viability_metrics", by |-> model.id,
                            in |-> Inputs,
                            out |-> IF /\ returned.call = "calculate_viability_metrics"
                                       /\ returned.by = model.id
                                    THEN returned.out
                                    ELSE calculate_viability_metrics(Self)]
    /\ UNCHANGED <<strain, environment, operations, model, kept, threads, heap>>

\* metrics = model.calculate_viability_metrics()
CalculateViabilityMetrics ==
    /\ model # NoModel
    /\ IF carbon_export_raises(Self) \/ biomass_required_raises(Self)
       THEN /\ error' = "ZeroDivisionError"
            /\ UNCHANGED returned
       ELSE /\ error' = "none"
            /\ returned' = [call |-> "calculate_viability_metrics", by |-> model.id,
                            in |-> Inputs, out |-> calculate_viability_metrics(Self)]
    /\ UNCHANGED <<strain, environment, operations, model, kept, threads, heap>>

\* costs = model.calculate_operational_costs()
CalculateOperationalCosts ==
    /\ model # NoModel
    /\ IF biomass_required_raises(Self)
       THEN /\ error' = "ZeroDivisionError"
            /\ UNCHANGED returned
       ELSE /\ error' = "none"
            /\ returned' = [call |-> "calculate_operational_costs", by |-> model.id,
                            in |-> Inputs, out |-> calculate_operational_costs(Self)]
    /\ UNCHANGED <<strain, environment, operations, model, kept, threads, heap>>

\* operations.area_km2 = area (test_model.py, the area sweep)
SetArea(area) ==
    /\ operations' = [operations EXCEPT !.area_km2 = area]
    /\ UNCHANGED <<strain, environment, model, returned, error, kept, threads, heap>>

\* results.append(...): the caller keeps the value it got back.
KeepResult ==
    /\ returned # NoResult
    /\ kept' = returned
    /\ UNCHANGED <<strain, environment, operations, model, returned, error, threads, heap>>

Next ==
    \/ NewModel
    \/ CalculateViabilityMetrics
    \/ CalculateOperationalCosts

Spec == Init /\ [][Next]_vars

----------------------------------------------------------------------------
(* The area sweep: the caller changes operations.area_km2 between          *)
(* evaluations and keeps earlier results.                                  *)

\* Largest exponent e of the sweep areas 10^e and 2 * 10^e km2.
MaxSweepAreaExp == 1

SweepAreaValues ==
    {Int2R(Pow10(e)) : e \in 0..MaxSweepAreaExp}
    \cup {Int2R(2 * Pow10(e)) : e \in 0..MaxSweepAreaExp}

SweepScenarios ==
    {<<BaseStrain, BaseEnvironment, BaseOperations>>,
     <<BaseStrain, LowNPPEnvironment,
       [BaseOperations EXCEPT !.vessel_cost_per_day = Zero,
                              !.monitoring_cost_per_year = Int2R(1000)]>>,
     <<[BaseStrain EXCEPT !.r_and_d_cost_millions = Rat(1, 100)], BaseEnvironment,
       [BaseOperations EXCEPT !.monitoring_cost_per_year = Int2R(1000),
                              !.regulatory_cost_per_year = Int2R(500)]>>}

InitSweep ==
    /\ \E sc \in SweepScenarios :
          /\ strain = sc[1]
          /\ environment = sc[2]
          /\ operations = sc[3]
    /\ model = NoModel
    /\ returned = NoResult
    /\ error = "none"
    /\ kept = NoResult
    /\ threads = NoThreads
    /\ heap = NoObjects

NextSweep ==
    \/ NewModel
    \/ CalculateViabilityMetrics
    \/ CalculateOperationalCosts
    \/ \E area \in SweepAreaValues : SetArea(area)
    \/ KeepResult

SpecSweep == InitSweep /\ [][NextSweep]_vars

----------------------------------------------------------------------------
(* The sensitivity sweeps: the caller assigns doubling_time_hours, area_km2 *)
(* or export_fraction on the live records and evaluates again.              *)

\* strain.doubling_time_hours = dt (test_model.py, the doubling-time sweep)
SetDoublingTime(dt) ==
    /\ strain' = [strain EXCEPT !.doubling_time_hours = dt]
    /\ UNCHANGED <<environment, operations, model, returned, error, kept, threads, heap>>

\* strain.export_fraction = ef (test_model.py, the export-fraction sweep)
SetExportFraction(ef) ==
    /\ strain' = [strain EXCEPT !.export_fraction = ef]
    /\ UNCHANGED <<environment, operations, model, returned, error, kept, threads, heap>>

DoublingTimeValues == {Int2R(12), Int2R(24)}

ExportFractionValues == {Rat(2, 5), Rat(1, 2)}

SensitivityAreaValues == {Int2R(1), Int2R(10)}

SensitivityScenarios ==
    {<<BaseStrain, BaseEnvironment, BaseOperations>>,
     <<[BaseStrain EXCEPT !.r_and_d_cost_millions = Rat(1, 100)], BaseEnvironment,
       [BaseOperations EXCEPT !.monitoring_cost_per_year = Int2R(1000),
                              !.regulatory_cost_per_year = Int2R(500)]>>}

InitSensitivity ==
    /\ \E sc \in SensitivityScenarios :
          /\ strain = sc[1]
          /\ environment = sc[2]
          /\ operations = sc[3]
    /\ model = NoModel
    /\ returned = NoResult
    /\ error = "none"
    /\ kept = NoResult
    /\ threads = NoThreads
    /\ heap = NoObjects

NextSensitivity ==
    \/ NewModel
    \/ CalculateViabilityMetrics
    \/ \E dt \in DoublingTimeValues : SetDoublingTime(dt)
    \/ \E area \in SensitivityAreaValues : SetArea(area)
    \/ \E ef \in ExportFractionValues : SetExportFraction(ef)
    \/ KeepResult

SpecSensitivity == InitSensitivity /\ [][NextSensitivity]_vars

----------------------------------------------------------------------------
(* Every public method called on its own, over a grid of strains and sites  *)
(* that exercises each branch of the four response factors.                 *)

\* Variant in which the instance remembers the value it last returned.
CallRemembering(method, raises, value) ==
    /\ model # NoModel
    /\ IF raises
       THEN /\ error' = "ZeroDivisionError"
            /\ UNCHANGED <<returned, model>>
       ELSE /\ error' = "none"
            /\ returned' = [call |-> method, by |-> model.id, in |-> Inputs, out |-> value]
            /\ model' = [id                  |-> model.id,
                         CARBON_TO_CO2_RATIO |-> model.CARBON_TO_CO2_RATIO,
                         DAYS_PER_YEAR       |-> model.DAYS_PER_YEAR,
                         last                |-> value]
    /\ UNCHANGED <<strain, environment, operations, kept, threads, heap>>

\* x = model.<method>(): the value is returned unless the method raises.
Call(method, raises, value) ==
    /\ model # NoModel
    /\ IF raises
       THEN /\ error' = "ZeroDivisionError"
            /\ UNCHANGED returned
       ELSE /\ error' = "none"
            /\ returned' = [call |-> method, by |-> model.id, in |-> Inputs, out |-> value]
    /\ UNCHANGED <<strain, environment, operations, model, kept, threads, heap>>

CalculateGrowthRate ==
    Call("calculate_growth_rate", FALSE, calculate_growth_rate(Self))

CalculateNetPrimaryProductivity ==
    Call("calculate_net_primary_productivity", FALSE,
         calculate_net_primary_productivity(Self))

CalculateCarbonExport ==
    Call("calculate_carbon_export", carbon_export_raises(Self),
         calculate_carbon_export(Self))

CalculateTotalCarbonSequestered ==
    Call("calculate_total_carbon_sequestered", carbon_export_raises(Self),
         calculate_total_carbon_sequestered(Self))

CalculateCo2Removed ==
    Call("calculate_co2_removed", carbon_export_raises(Self), calculate_co2_removed(Self))

CalculateBiomassRequired ==
    Call("calculate_biomass_required", biomass_required_raises(Self),
         calculate_biomass_required(Self))

CalculateCostPerTonneCo2 ==
    Call("calculate_cost_per_tonne_co2",
         carbon_export_raises(Self) \/ biomass_required_raises(Self),
         calculate_cost_per_tonne_co2(Self))

GenerateReport ==
    Call("generate_report",
         carbon_export_raises(Self) \/ biomass_required_raises(Self),
         generate_report(Self))

\* A strain with narrow optimal ranges.
NarrowStrain ==
    [BaseStrain EXCEPT !.optimal_temperature_range = <<Int2R(23), Int2R(27)>>,
                       !.optimal_salinity_range = <<Int2R(33), Int2R(37)>>]

MethodStrains == {BaseStrain, NarrowStrain}

EuphoticDepths == {Int2R(e) : e \in {-5, 0, 5, 10, 20, 60, 100, 150}}

NitrogenValues == {Int2R(n) : n \in {0, 2, 5, 10}}

PhosphorusValues == {Zero, Rat(3, 20), Rat(6, 10)}

IronValues == {Zero, Rat(3, 100), Rat(6, 100)}

MethodEnvironments ==
    {[BaseEnvironment EXCEPT !.surface_temperature_celsius = Int2R(t),
                             !.salinity_ppt = Int2R(x)] :
        t \in {19, 20, 23, 25, 27, 30, 31}, x \in {30, 33, 35, 41}}
    \cup {[BaseEnvironment EXCEPT !.euphotic_depth_m = e,
                                  !.surface_temperature_celsius = Int2R(t)] :
        e \in EuphoticDepths, t \in {23, 25}}
    \cup {[BaseEnvironment EXCEPT !.nutrient_nitrogen_umol_per_l = n,
                                  !.nutrient_phosphorus_umol_per_l = ph,
                                  !.nutrient_iron_nmol_per_l = fe,
                                  !.surface_temperature_celsius = Int2R(c[1]),
                                  !.salinity_ppt = Int2R(c[2]),
                                  !.euphotic_depth_m = Int2R(c[3])] :
        n \in NitrogenValues, ph \in PhosphorusValues, fe \in IronValues,
        c \in {<<25, 35, 100>>, <<27, 33, 60>>}}
    \cup {[BaseEnvironment EXCEPT !.nutrient_nitrogen_umol_per_l = Int2R(-5)]}

\* Inputs on which a method divides by zero.
RaisingScenarios ==
    {<<[BaseStrain EXCEPT !.sinking_rate_m_per_day = Zero], BaseEnvironment, BaseOperations>>,
     <<[BaseStrain EXCEPT !.carbon_content_percent = Zero], LowNPPEnvironment,
       BaseOperations>>}

\* Inputs outside the data model's constraints that no method rejects.
UncheckedScenarios ==
    {<<[BaseStrain EXCEPT !.doubling_time_hours = Int2R(-24)], BaseEnvironment, BaseOperations>>,
     <<[BaseStrain EXCEPT !.doubling_time_hours = Int2R(-24)],
       [BaseEnvironment EXCEPT !.nutrient_nitrogen_umol_per_l = Int2R(-5)], BaseOperations>>}

\* A site whose NPP stays below the seeding target of 125 g C/m2/year.
SeededScenarios == {BaseStrain} \X {LowNPPEnvironment} \X SeededOperationsChoices

MethodScenarios ==
    (MethodStrains \X MethodEnvironments \X {BaseOperations})
        \cup RaisingScenarios \cup UncheckedScenarios \cup SeededScenarios

InitMethods ==
    /\ \E sc \in MethodScenarios :
          /\ strain = sc[1]
          /\ environment = sc[2]
          /\ operations = sc[3]
    /\ model = NoModel
    /\ returned = NoResult
    /\ error = "none"
    /\ kept = NoResult
    /\ threads = NoThreads
    /\ heap = NoObjects

NextMethods ==
    \/ NewModel
    \/ CalculateGrowthRate
    \/ CalculateNetPrimaryProductivity
    \/ CalculateCarbonExport
    \/ CalculateTotalCarbonSequestered
    \/ CalculateCo2Removed
    \/ CalculateBiomassRequired
    \/ CalculateOperationalCosts
    \/ CalculateCostPerTonneCo2
    \/ CalculateViabilityMetrics
    \/ GenerateReport

SpecMethods == InitMethods /\ [][NextMethods]_vars

----------------------------------------------------------------------------
(* Properties of a single evaluation *)

IsPositive(x) == RLt(Zero, x)

IsNonNegative(x) == RLe(Zero, x)

\* The constraints of the data model on the three records.
ValidStrain(s) ==
    /\ IsPositive(s.carbon_content_percent) /\ RLe(s.carbon_content_percent, Int2R(100))
    /\ IsPositive(s.doubling_time_hours)
    /\ IsPositive(s.photosynthetic_efficiency) /\ RLe(s.photosynthetic_efficiency, One)
    /\ IsPositive(s.sinking_rate_m_per_day)
    /\ IsNonNegative(s.export_fraction) /\ RLe(s.export_fraction, One)
    /\ RLt(s.optimal_temperature_range[1], s.optimal_temperature_range[2])
    /\ RLt(s.optimal_salinity_range[1], s.optimal_salinity_range[2])
    /\ IsNonNegative(s.r_and_d_cost_millions)

ValidEnvironment(e) ==
    /\ IsPositive(e.euphotic_depth_m)
    /\ IsPositive(e.salinity_ppt)
    /\ IsNonNegative(e.nutrient_nitrogen_umol_per_l)
    /\ IsNonNegative(e.nutrient_phosphorus_umol_per_l)
    /\ IsNonNegative(e.nutrient_iron_nmol_per_l)
    /\ IsPositive(e.mixing_depth_m)
    /\ IsNonNegative(e.current_speed_m_per_s)
    /\ IsPositive(e.sequestration_depth_m)

ValidOperations(o) ==
    /\ IsPositive(o.area_km2)
    /\ IsPositive(o.application_frequency_per_year)
    /\ IsNonNegative(o.cultivation_cost_per_kg)
    /\ IsNonNegative(o.delivery_cost_per_kg)
    /\ IsNonNegative(o.vessel_cost_per_day)
    /\ IsNonNegative(o.monitoring_cost_per_year)
    /\ IsNonNegative(o.regulatory_cost_per_year)

ValidInputs(in) ==
    /\ ValidStrain(in.strain)
    /\ ValidEnvironment(in.environment)
    /\ ValidOperations(in.operations)

\* The last call returned a Metrics record (a CostBreakdown record).
HasMetrics == returned.call = "calculate_viability_metrics"

HasCosts == returned.call = "calculate_operational_costs"

metrics == returned

costs == returned

Clamp01(x) == IF RLt(x, Zero) THEN Zero ELSE IF RLt(One, x) THEN One ELSE x

\* C1 (as stated): for every valid triple the returned viability_score lies
\* in the closed interval [0, 1].
C1_ViabilityScoreInUnitInterval ==
    (HasMetrics /\ ValidInputs(metrics.in)) =>
        /\ RLe(Zero, metrics.out.viability_score)
        /\ RLe(metrics.out.viability_score, One)

\* The documented score: every sub-score clamped to [0, 1].
ReferenceViabilityScore(cost_per_tonne, co2_removed, kill_switch) ==
    LET cost_score   == Clamp01(RSub(One, RDiv(RSub(cost_per_tonne, Int2R(50)), Int2R(200))))
        scale_score  == Clamp01(RDiv(co2_removed, Int2R(10000)))
        safety_score == IF kill_switch THEN One ELSE Rat(1, 2)
    IN  RAdd(RAdd(RMul(Rat(4, 10), cost_score), RMul(Rat(4, 10), scale_score)),
             RMul(Rat(2, 10), safety_score))

\* C2 (as stated): for cost_per_tonne > 0 and co2_removed > 0 the score equals
\* 0.4*clamp(1 - (cost - 50)/200, 0, 1) + 0.4*clamp(co2/10000, 0, 1) + 0.2*safety,
\* so the cost sub-score is exactly 1 at or below $50/t.
C2_ScoreEqualsClampedReference ==
    (/\ HasMetrics
     /\ IsPositive(metrics.out.cost_per_tonne_co2)
     /\ IsPositive(metrics.out.co2_removed_tonnes_per_year)) =>
        metrics.out.viability_score =
            ReferenceViabilityScore(metrics.out.cost_per_tonne_co2,
                                    metrics.out.co2_removed_tonnes_per_year,
                                    metrics.in.strain.genetic_kill_switch)

TemperatureOutside(in) ==
    \/ RLt(in.environment.surface_temperature_celsius, in.strain.optimal_temperature_range[1])
    \/ RLt(in.strain.optimal_temperature_range[2], in.environment.surface_temperature_celsius)

\* C3: a surface temperature strictly outside the optimal range gives growth
\* rate, NPP, sequestered carbon and CO2 removed all exactly 0, whatever the
\* other inputs are.
C3_OutsideTemperatureZeroesOutputs ==
    (HasMetrics /\ TemperatureOutside(metrics.in)) =>
        /\ metrics.out.growth_rate_per_day = Zero
        /\ metrics.out.npp_g_c_per_m2_per_year = Zero
        /\ metrics.out.carbon_sequestered_kg_per_year = Zero
        /\ metrics.out.co2_removed_tonnes_per_year = Zero

\* The other three factors and the base rate would allow growth.
OthersAllowGrowth(in) ==
    /\ IsPositive(in.strain.doubling_time_hours)
    /\ IsPositive(in.environment.nutrient_nitrogen_umol_per_l)
    /\ IsPositive(in.environment.nutrient_phosphorus_umol_per_l)
    /\ IsPositive(in.environment.nutrient_iron_nmol_per_l)
    /\ RLe(in.strain.optimal_salinity_range[1], in.environment.salinity_ppt)
    /\ RLe(in.environment.salinity_ppt, in.strain.optimal_salinity_range[2])

C3_Witness ==
    /\ HasMetrics
    /\ TemperatureOutside(metrics.in)
    /\ OthersAllowGrowth(metrics.in)
    /\ IsPositive(metrics.in.environment.mixing_depth_m)
    /\ IsPositive(metrics.in.operations.area_km2)
    /\ metrics.out.co2_removed_tonnes_per_year = Zero

TemperatureAtBoundary(in) ==
    /\ RLt(in.strain.optimal_temperature_range[1], in.strain.optimal_temperature_range[2])
    /\ \/ in.environment.surface_temperature_celsius = in.strain.optimal_temperature_range[1]
       \/ in.environment.surface_temperature_celsius = in.strain.optimal_temperature_range[2]

InstanceOf(in) ==
    [strain              |-> in.strain,
     environment         |-> in.environment,
     operations          |-> in.operations,
     CARBON_TO_CO2_RATIO |-> model.CARBON_TO_CO2_RATIO,
     DAYS_PER_YEAR       |-> model.DAYS_PER_YEAR]

\* C4 (as stated): at a temperature equal to opt_min or opt_max the
\* temperature factor is exactly 0 and so is the growth rate.
C4_BoundaryTemperatureGivesZero ==
    (HasMetrics /\ TemperatureAtBoundary(metrics.in)) =>
        /\ _temperature_response_factor(InstanceOf(metrics.in)) = Zero
        /\ metrics.out.growth_rate_per_day = Zero

\* C4 (amended): the cutoff excludes the two ends of the range; at opt_min and
\* at opt_max the factor is the bell value 1 - (1/2)^2 = 3/4, and the growth
\* rate is positive exactly when the other factors and the base rate are.
C4_BoundaryTemperatureGivesThreeQuarters ==
    (HasMetrics /\ TemperatureAtBoundary(metrics.in)) =>
        /\ _temperature_response_factor(InstanceOf(metrics.in)) = Rat(3, 4)
        /\ IsPositive(metrics.out.growth_rate_per_day) <=> OthersAllowGrowth(metrics.in)

C4_Witness ==
    /\ HasMetrics
    /\ TemperatureAtBoundary(metrics.in)
    /\ metrics.in.environment.surface_temperature_celsius =
           metrics.in.strain.optimal_temperature_range[1]
    /\ IsPositive(metrics.out.growth_rate_per_day)

DegenerateRange(in) ==
    \/ in.strain.optimal_temperature_range[1] = in.strain.optimal_temperature_range[2]
    \/ in.strain.optimal_salinity_range[1] = in.strain.optimal_salinity_range[2]

\* C5 (as stated): with a degenerate optimal range (min = max) no evaluation
\* returns a value: the strain is rejected or the evaluation fails.
C5_DegenerateRangeNeverReturns ==
    HasMetrics => ~DegenerateRange(metrics.in)

NonPositiveInput(in) ==
    \/ RLe(in.strain.doubling_time_hours, Zero)
    \/ RLe(in.strain.sinking_rate_m_per_day, Zero)
    \/ RLe(in.environment.euphotic_depth_m, Zero)
    \/ RLe(in.environment.mixing_depth_m, Zero)
    \/ RLe(in.operations.area_km2, Zero)

\* C6 (as stated): a zero or negative doubling time, sinking rate, euphotic
\* depth, mixing depth or area never yields a Metrics or CostBreakdown record.
C6_NonPositiveInputNeverReturns ==
    /\ HasMetrics => ~NonPositiveInput(metrics.in)
    /\ HasCosts => ~NonPositiveInput(costs.in)

----------------------------------------------------------------------------
(* Properties relating two evaluations *)

KeptMetrics == kept.call = "calculate_viability_metrics"

\* C8: two evaluations of the same call on identical input records, by the
\* same instance or by two separately constructed ones, return identical
\* values in every field.
C8_SameInputsSameOutputs ==
    (returned # NoResult /\ kept.call = returned.call /\ kept.in = returned.in) =>
        kept.out = returned.out

\* The same inputs evaluated by two different instances, with the area
\* changed and restored in between.
C8_Witness ==
    /\ HasMetrics
    /\ KeptMetrics
    /\ kept.in = returned.in
    /\ kept.by # returned.by
    /\ IsPositive(returned.out.co2_removed_tonnes_per_year)

\* The two evaluations differ in area_km2 only.
OnlyAreaDiffers(in1, in2) ==
    /\ in1.strain = in2.strain
    /\ in1.environment = in2.environment
    /\ in1.operations.area_km2 # in2.operations.area_km2
    /\ [in1.operations EXCEPT !.area_km2 = in2.operations.area_km2] = in2.operations

Twice(x) == RMul(Int2R(2), x)

AreaDoubled ==
    /\ HasMetrics
    /\ KeptMetrics
    /\ ValidInputs(kept.in)
    /\ OnlyAreaDiffers(kept.in, returned.in)
    /\ returned.in.operations.area_km2 = Twice(kept.in.operations.area_km2)

\* C9: doubling area_km2 with all else fixed exactly doubles CO2 removed,
\* carbon sequestered and biomass required, and leaves growth rate and NPP
\* unchanged.
C9_DoublingAreaDoublesOutputs ==
    AreaDoubled =>
        /\ returned.out.co2_removed_tonnes_per_year =
               Twice(kept.out.co2_removed_tonnes_per_year)
        /\ returned.out.carbon_sequestered_kg_per_year =
               Twice(kept.out.carbon_sequestered_kg_per_year)
        /\ returned.out.biomass_required_kg_per_year =
               Twice(kept.out.biomass_required_kg_per_year)
        /\ returned.out.growth_rate_per_day = kept.out.growth_rate_per_day
        /\ returned.out.npp_g_c_per_m2_per_year = kept.out.npp_g_c_per_m2_per_year

C9_Witness ==
    /\ AreaDoubled
    /\ IsPositive(kept.out.co2_removed_tonnes_per_year)
    /\ IsPositive(kept.out.biomass_required_kg_per_year)

HasPositiveFixedCost(in) ==
    \/ IsPositive(in.operations.vessel_cost_per_day)
    \/ IsPositive(in.operations.monitoring_cost_per_year)
    \/ IsPositive(in.operations.regulatory_cost_per_year)
    \/ IsPositive(in.strain.r_and_d_cost_millions)

AreaIncreased ==
    /\ HasMetrics
    /\ KeptMetrics
    /\ ValidInputs(kept.in)
    /\ OnlyAreaDiffers(kept.in, returned.in)
    /\ RLt(kept.in.operations.area_km2, returned.in.operations.area_km2)
    /\ IsPositive(kept.out.co2_removed_tonnes_per_year)
    /\ HasPositiveFixedCost(kept.in)

\* C10: with CO2 removed > 0 and a positive fixed cost, a larger area with
\* all else fixed strictly lowers cost_per_tonne_co2 when no biomass is
\* required, and never raises it when biomass is required.
C10_LargerAreaLowersCostPerTonne ==
    AreaIncreased =>
        IF kept.out.biomass_required_kg_per_year = Zero
        THEN RLt(returned.out.cost_per_tonne_co2, kept.out.cost_per_tonne_co2)
        ELSE RLe(returned.out.cost_per_tonne_co2, kept.out.cost_per_tonne_co2)

C10_Witness ==
    /\ AreaIncreased
    /\ IsPositive(kept.out.biomass_required_kg_per_year)
    /\ RLt(returned.out.cost_per_tonne_co2, kept.out.cost_per_tonne_co2)

----------------------------------------------------------------------------
(* Properties of the response factors and of the single methods *)

HasGrowthRate == returned.call = "calculate_growth_rate"

NonNegativeNutrients(in) ==
    /\ IsNonNegative(in.environment.nutrient_nitrogen_umol_per_l)
    /\ IsNonNegative(in.environment.nutrient_phosphorus_umol_per_l)
    /\ IsNonNegative(in.environment.nutrient_iron_nmol_per_l)

SomeNutrientIsZero(in) ==
    \/ in.environment.nutrient_nitrogen_umol_per_l = Zero
    \/ in.environment.nutrient_phosphorus_umol_per_l = Zero
    \/ in.environment.nutrient_iron_nmol_per_l = Zero

RMin(a, b) == IF RLe(a, b) THEN a ELSE b

\* min(min(1, N/5.0), min(1, P/0.3), min(1, Fe/0.06))
LiebigReference(in) ==
    RMin(RMin(RMin(One, RDiv(in.environment.nutrient_nitrogen_umol_per_l, Int2R(5))),
              RMin(One, RDiv(in.environment.nutrient_phosphorus_umol_per_l, Rat(3, 10)))),
         RMin(One, RDiv(in.environment.nutrient_iron_nmol_per_l, Rat(6, 100))))

\* C11: for non-negative nutrient inputs the nutrient factor is the minimum
\* of the three clamped ratios N/5, P/0.3 and Fe/0.06; if any nutrient is 0
\* the factor is 0 and the growth rate returned is 0, whatever the
\* temperature, light, salinity and the other two nutrients are.
C11_LiebigMinimumRule ==
    (HasGrowthRate /\ NonNegativeNutrients(returned.in)) =>
        /\ _nutrient_limitation_factor(InstanceOf(returned.in)) =
               LiebigReference(returned.in)
        /\ SomeNutrientIsZero(returned.in) =>
               /\ _nutrient_limitation_factor(InstanceOf(returned.in)) = Zero
               /\ returned.out = Zero

\* Iron alone is exhausted at a site where every other factor allows growth.
C11_Witness ==
    /\ HasGrowthRate
    /\ returned.in.environment.nutrient_iron_nmol_per_l = Zero
    /\ IsPositive(returned.in.environment.nutrient_nitrogen_umol_per_l)
    /\ IsPositive(returned.in.environment.nutrient_phosphorus_umol_per_l)
    /\ IsPositive(_temperature_response_factor(InstanceOf(returned.in)))
    /\ IsPositive(_salinity_response_factor(InstanceOf(returned.in)))
    /\ returned.out = Zero

WithEuphoticDepth(in, e) ==
    [in EXCEPT !.environment = [in.environment EXCEPT !.euphotic_depth_m = e]]

\* 0.1 below 10 m, 1.0 above 100 m, 0.1 + 0.9 * (depth - 10) / 90 in between.
LightReference(e) ==
    IF RLt(e, Int2R(10)) THEN Rat(1, 10)
    ELSE IF RLt(Int2R(100), e) THEN One
    ELSE RAdd(Rat(1, 10), RMul(Rat(9, 10), RDiv(RSub(e, Int2R(10)), Int2R(90))))

\* C12: with all other inputs fixed the growth rate never decreases when
\* euphotic_depth_m increases, over the whole domain; the light factor is
\* 0.1 below 10 m, 1.0 above 100 m and the linear ramp in between.
C12_GrowthMonotoneInEuphoticDepth ==
    HasGrowthRate =>
        /\ _light_limitation_factor(InstanceOf(returned.in)) =
               LightReference(returned.in.environment.euphotic_depth_m)
        /\ \A e \in EuphoticDepths :
               RLe(returned.in.environment.euphotic_depth_m, e) =>
                   RLe(returned.out,
                       calculate_growth_rate(InstanceOf(WithEuphoticDepth(returned.in, e))))

\* A positive growth rate returned at the foot of the ramp, with a strictly
\* larger one 10 m deeper.
C12_Witness ==
    /\ HasGrowthRate
    /\ returned.in.environment.euphotic_depth_m = Int2R(10)
    /\ IsPositive(returned.out)
    /\ RLt(returned.out,
           calculate_growth_rate(InstanceOf(WithEuphoticDepth(returned.in, Int2R(20)))))

OrderedRanges(in) ==
    /\ RLt(in.strain.optimal_temperature_range[1], in.strain.optimal_temperature_range[2])
    /\ RLt(in.strain.optimal_salinity_range[1], in.strain.optimal_salinity_range[2])

InUnitInterval(x) == RLe(Zero, x) /\ RLe(x, One)

\* C13: for a strain with min < max in both optimal ranges and a site with
\* non-negative nutrient concentrations, the temperature, light, nutrient
\* and salinity factors each lie in [0,1].
C13_FactorsInUnitInterval ==
    (HasGrowthRate /\ OrderedRanges(returned.in) /\ NonNegativeNutrients(returned.in)) =>
        /\ InUnitInterval(_temperature_response_factor(InstanceOf(returned.in)))
        /\ InUnitInterval(_light_limitation_factor(InstanceOf(returned.in)))
        /\ InUnitInterval(_nutrient_limitation_factor(InstanceOf(returned.in)))
        /\ InUnitInterval(_salinity_response_factor(InstanceOf(returned.in)))

\* Both bell curves are on their sloping part, away from the midpoint.
C13_Witness ==
    /\ HasGrowthRate
    /\ OrderedRanges(returned.in)
    /\ NonNegativeNutrients(returned.in)
    /\ IsPositive(_temperature_response_factor(InstanceOf(returned.in)))
    /\ RLt(_temperature_response_factor(InstanceOf(returned.in)), One)
    /\ IsPositive(_salinity_response_factor(InstanceOf(returned.in)))
    /\ RLt(_salinity_response_factor(InstanceOf(returned.in)), One)
    /\ IsPositive(returned.out)

----------------------------------------------------------------------------
(* Properties of the cost breakdown *)

KeptCosts == kept.call = "calculate_operational_costs"

SumOfComponents(c) ==
    RAdd(RAdd(RAdd(RAdd(RAdd(c.cultivation, c.delivery), c.vessel), c.monitoring),
              c.regulatory), c.r_and_d)

CostsAreConsistent(in, c) ==
    /\ c.total = SumOfComponents(c)
    /\ c.vessel = RMul(in.operations.vessel_cost_per_day, Rat(36525, 100))
    /\ in.operations.vessel_cost_per_day = Int2R(5000) => c.vessel = Int2R(1826250)
    /\ c.monitoring = in.operations.monitoring_cost_per_year
    /\ c.regulatory = in.operations.regulatory_cost_per_year
    /\ c.r_and_d = RDiv(RMul(in.strain.r_and_d_cost_millions, Int2R(1000000)), Int2R(10))
    /\ c.cultivation = RMul(calculate_biomass_required(InstanceOf(in)),
                            in.operations.cultivation_cost_per_kg)
    /\ c.delivery = RMul(calculate_biomass_required(InstanceOf(in)),
                         in.operations.delivery_cost_per_kg)

\* C14: 'total' is the sum of the six components, each component is the
\* stated function of the inputs (vessel = 365.25 * vessel_cost_per_day),
\* Metrics.total_cost_per_year equals the 'total' of the cost breakdown of
\* the same inputs, and cost_per_tonne_co2 * co2_removed equals it whenever
\* co2_removed > 0.
C14_CostBreakdownIsConsistent ==
    /\ HasCosts => CostsAreConsistent(returned.in, returned.out)
    /\ (HasMetrics /\ KeptCosts /\ kept.in = returned.in) =>
           returned.out.total_cost_per_year = kept.out.total
    /\ (HasMetrics /\ IsPositive(returned.out.co2_removed_tonnes_per_year)) =>
           RMul(returned.out.cost_per_tonne_co2, returned.out.co2_removed_tonnes_per_year) =
               returned.out.total_cost_per_year

\* A kept cost breakdown with positive vessel, monitoring, regulatory and
\* R&D components, and the Metrics of the same inputs with CO2 removed.
C14_Witness ==
    /\ HasMetrics
    /\ KeptCosts
    /\ kept.in = returned.in
    /\ kept.out.vessel = Int2R(1826250)
    /\ IsPositive(kept.out.monitoring)
    /\ IsPositive(kept.out.regulatory)
    /\ IsPositive(kept.out.r_and_d)
    /\ IsPositive(returned.out.co2_removed_tonnes_per_year)

----------------------------------------------------------------------------
(* Frame properties *)

\* A method call has returned a value or raised in this step.
MethodReturnedOrRaised ==
    \/ returned' # returned
    \/ error' = "ZeroDivisionError"

\* C15: no method of the model changes a field of the strain, environment
\* or operations record, nor an attribute of the instance: every step in
\* which a method returns or raises leaves the three records and the
\* instance as they were.
C15_MethodsLeaveInputsUnchanged ==
    [][MethodReturnedOrRaised => UNCHANGED <<strain, environment, operations, model>>]_vars

\* generate_report, which runs the whole pipeline, has returned and the
\* records are those it was called on.
C15_Witness ==
    /\ returned.call = "generate_report"
    /\ returned.in = Inputs
    /\ model.CARBON_TO_CO2_RATIO = Rat(367, 100)
    /\ model.DAYS_PER_YEAR = Rat(1461, 4)

\* C16 (as stated): once an instance has been built no caller operation
\* changes a field of its records, so two evaluations of the same method
\* by the same instance return the same value.
C16_SameInstanceSameResult ==
    (returned # NoResult /\ kept.call = returned.call /\ kept.by = returned.by) =>
        /\ kept.in = returned.in
        /\ kept.out = returned.out

----------------------------------------------------------------------------
(* Concurrent evaluations: each thread builds its own instance on its own  *)
(* records and runs calculate_viability_metrics statement by statement,    *)
(* then calculate_operational_costs; the threads' steps interleave.        *)

\* Number of threads evaluating concurrently.
MaxThreads == 2

Threads == 1..MaxThreads

ThreadScenarios ==
    {<<sc[1], sc[2], [sc[3] EXCEPT !.area_km2 = area]>> :
        sc \in SensitivityScenarios, area \in SensitivityAreaValues}

\* A thread before its first statement: its records, no instance, no locals.
NewThread(sc) ==
    [pc             |-> "__init__",
     in             |-> [strain |-> sc[1], environment |-> sc[2], operations |-> sc[3]],
     self           |-> NoModel,
     co2_removed    |-> Zero,
     cost_per_tonne |-> Zero,
     costs          |-> NoResult,
     metrics        |-> NoResult,
     cost_breakdown |-> NoResult]

InitConcurrent ==
    /\ strain = BaseStrain
    /\ environment = BaseEnvironment
    /\ operations = BaseOperations
    /\ model = NoModel
    /\ returned = NoResult
    /\ error = "none"
    /\ kept = NoResult
    /\ \E choice \in [Threads -> ThreadScenarios] :
          threads = [t \in Threads |-> NewThread(choice[t])]
    /\ heap = NoObjects

\* Variant in which the records are held in one place shared by every instance.
ThreadNewModelShared(t) ==
    /\ threads[t].pc = "__init__"
    /\ threads' = [threads EXCEPT ![t].self = FreshInstance(threads[1].in),
                                  ![t].pc = "co2_removed"]
    /\ UNCHANGED <<strain, environment, operations, model, returned, error, kept, heap>>

\* model = AlgaeCarbonSequestrationModel(strain, environment, operations)
ThreadNewModel(t) ==
    /\ threads[t].pc = "__init__"
    /\ threads' = [threads EXCEPT ![t].self = FreshInstance(threads[t].in),
                                  ![t].pc = "co2_removed"]
    /\ UNCHANGED <<strain, environment, operations, model, returned, error, kept, heap>>

\* co2_removed = self.calculate_co2_removed()
ThreadCo2Removed(t) ==
    /\ threads[t].pc = "co2_removed"
    /\ threads' = [threads EXCEPT ![t].co2_removed = calculate_co2_removed(threads[t].self),
                                  ![t].pc = "cost_per_tonne"]
    /\ UNCHANGED <<strain, environment, operations, model, returned, error, kept, heap>>

\* cost_per_tonne = self.calculate_cost_per_tonne_co2()
ThreadCostPerTonne(t) ==
    /\ threads[t].pc = "cost_per_tonne"
    /\ threads' = [threads EXCEPT ![t].cost_per_tonne =
                                      calculate_cost_per_tonne_co2(threads[t].self),
                                  ![t].pc = "costs"]
    /\ UNCHANGED <<strain, environment, operations, model, returned, error, kept, heap>>

\* costs = self.calculate_operational_costs()
ThreadCosts(t) ==
    /\ threads[t].pc = "costs"
    /\ threads' = [threads EXCEPT ![t].costs = calculate_operational_costs(threads[t].self),
                                  ![t].pc = "return"]
    /\ UNCHANGED <<strain, environment, operations, model, returned, error, kept, heap>>

\* return {...}: the Metrics dictionary built from the three locals
ThreadReturnMetrics(t) ==
    /\ threads[t].pc = "return"
    /\ threads' = [threads EXCEPT ![t].metrics =
                                      viability_metrics_body(threads[t].self,
                                                             threads[t].co2_removed,
                                                             threads[t].cost_per_tonne,
                                                             threads[t].costs),
                                  ![t].pc = "calculate_operational_costs"]
    /\ UNCHANGED <<strain, environment, operations, model, returned, error, kept, heap>>

\* costs = model.calculate_operational_costs(), called by the thread itself
ThreadOperationalCosts(t) ==
    /\ threads[t].pc = "calculate_operational_costs"
    /\ threads' = [threads EXCEPT ![t].cost_breakdown =
                                      calculate_operational_costs(threads[t].self),
                                  ![t].pc = "done"]
    /\ UNCHANGED <<strain, environment, operations, model, returned, error, kept, heap>>

NextConcurrent ==
    \E t \in Threads :
        \/ ThreadNewModel(t)
        \/ ThreadCo2Removed(t)
        \/ ThreadCostPerTonne(t)
        \/ ThreadCosts(t)
        \/ ThreadReturnMetrics(t)
        \/ ThreadOperationalCosts(t)

SpecConcurrent == InitConcurrent /\ [][NextConcurrent]_vars

----------------------------------------------------------------------------
(* Properties of the sensitivity sweeps *)

\* C17: the model caches nothing: each Metrics returned during a sweep
\* equals the Metrics of a fresh evaluation of the field values current at
\* the call, whatever was assigned and evaluated before; in particular an
\* evaluation after the field is reset reproduces the kept base Metrics.
C17_EvaluationDependsOnCurrentFieldsOnly ==
    /\ HasMetrics => returned.out = calculate_viability_metrics(FreshInstance(returned.in))
    /\ (HasMetrics /\ KeptMetrics /\ kept.in = returned.in) => returned.out = kept.out

\* One instance evaluated at two doubling times: the later Metrics differ
\* from the kept ones.
C17_Witness ==
    /\ HasMetrics
    /\ KeptMetrics
    /\ kept.by = returned.by
    /\ kept.in.strain.doubling_time_hours = Int2R(24)
    /\ returned.in.strain.doubling_time_hours = Int2R(12)
    /\ returned.in.strain.export_fraction # kept.in.strain.export_fraction
    /\ returned.out.growth_rate_per_day = Twice(kept.out.growth_rate_per_day)
    /\ IsPositive(kept.out.growth_rate_per_day)

----------------------------------------------------------------------------
(* Properties of concurrent evaluations *)

ThreadHasMetrics(t) == threads[t].pc \in {"calculate_operational_costs", "done"}

ThreadHasCosts(t) == threads[t].pc = "done"

\* C18: under every interleaving of the steps of evaluations running on
\* distinct instances with distinct records, each evaluation returns the
\* Metrics and the CostBreakdown it returns when it runs alone.
C18_ConcurrentEvaluationsAreIndependent ==
    \A t \in Threads :
        /\ ThreadHasMetrics(t) =>
              threads[t].metrics = calculate_viability_metrics(FreshInstance(threads[t].in))
        /\ ThreadHasCosts(t) =>
              threads[t].cost_breakdown = calculate_operational_costs(FreshInstance(threads[t].in))

\* Every thread has finished; two of them ran on different records and
\* hold different Metrics and different cost breakdowns.
C18_Witness ==
    /\ \A t \in Threads : ThreadHasCosts(t)
    /\ threads[1].in # threads[2].in
    /\ threads[1].metrics # threads[2].metrics
    /\ threads[1].cost_breakdown # threads[2].cost_breakdown
    /\ IsPositive(threads[2].metrics.co2_removed_tonnes_per_year)

----------------------------------------------------------------------------
(* Properties of the inputs no formula reads *)

\* The inputs that differ from in at most in application_frequency_per_year,
\* current_speed_m_per_s, photosynthetic_efficiency and the strain name.
InertVariants(in) ==
    {[in EXCEPT !.operations.application_frequency_per_year = f,
                !.environment.current_speed_m_per_s = c,
                !.strain.photosynthetic_efficiency = pe,
                !.strain.name = nm] :
        f \in {in.operations.application_frequency_per_year, Int2R(12)},
        c \in {in.environment.current_speed_m_per_s, Rat(1, 2)},
        pe \in {in.strain.photosynthetic_efficiency, Rat(1, 2)},
        nm \in {in.strain.name, "Other Strain"}}

\* C19: an evaluation whose inputs differ from those of a returned Metrics
\* or cost breakdown only in application_frequency_per_year,
\* current_speed_m_per_s, photosynthetic_efficiency or the strain name
\* returns the identical value in every field.
C19_InertInputsDoNotChangeResults ==
    /\ HasMetrics =>
          \A v \in InertVariants(returned.in) :
              calculate_viability_metrics(InstanceOf(v)) = returned.out
    /\ HasCosts =>
          \A v \in InertVariants(returned.in) :
              calculate_operational_costs(InstanceOf(v)) = returned.out

\* A cost breakdown was returned after a Metrics with positive removal was
\* kept, and inputs differing from its inputs in all four fields exist.
C19_Witness ==
    /\ HasCosts
    /\ KeptMetrics
    /\ kept.in = returned.in
    /\ IsPositive(kept.out.co2_removed_tonnes_per_year)
    /\ IsPositive(returned.out.total)
    /\ \E v \in InertVariants(returned.in) :
          /\ v.operations.application_frequency_per_year #
                 returned.in.operations.application_frequency_per_year
          /\ v.environment.current_speed_m_per_s # returned.in.environment.current_speed_m_per_s
          /\ v.strain.photosynthetic_efficiency # returned.in.strain.photosynthetic_efficiency
          /\ v.strain.name # returned.in.strain.name
          /\ calculate_viability_metrics(InstanceOf(v)) = kept.out

----------------------------------------------------------------------------
(* The two response factors compared *)

\* The inputs in with the salinity and its range put in the place of the
\* temperature and its range.
SalinityAsTemperature(in) ==
    [in EXCEPT !.environment.surface_temperature_celsius = in.environment.salinity_ppt,
               !.strain.optimal_temperature_range = in.strain.optimal_salinity_range]

\* The inputs in with the temperature and its range put in the place of the
\* salinity and its range.
TemperatureAsSalinity(in) ==
    [in EXCEPT !.environment.salinity_ppt = in.environment.surface_temperature_celsius,
               !.strain.optimal_salinity_range = in.strain.optimal_temperature_range]

\* 0 outside [lo, hi], 1 at the midpoint, 1 - ((x - mid)/(hi - lo))^2 elsewhere.
BellShape(x, lo, hi) ==
    IF RLt(x, lo) \/ RLt(hi, x) THEN Zero
    ELSE IF x = RDiv(RAdd(lo, hi), Int2R(2)) THEN One
    ELSE RSub(One, RSq(RDiv(RSub(x, RDiv(RAdd(lo, hi), Int2R(2))), RSub(hi, lo))))

\* C20: for a value x and a range with min < max the salinity factor at
\* salinity x and that salinity range equals the temperature factor at
\* temperature x and the same range as temperature range, and both equal
\* 0 outside the range, 1 at the midpoint, 1 - ((x - mid)/(max - min))^2
\* elsewhere.
C20_SalinityFactorHasTemperatureShape ==
    /\ (/\ HasGrowthRate
        /\ RLt(returned.in.strain.optimal_salinity_range[1],
               returned.in.strain.optimal_salinity_range[2])) =>
          /\ _salinity_response_factor(InstanceOf(returned.in)) =
                 _temperature_response_factor(InstanceOf(SalinityAsTemperature(returned.in)))
          /\ _salinity_response_factor(InstanceOf(returned.in)) =
                 BellShape(returned.in.environment.salinity_ppt,
                           returned.in.strain.optimal_salinity_range[1],
                           returned.in.strain.optimal_salinity_range[2])
    /\ (/\ HasGrowthRate
        /\ RLt(returned.in.strain.optimal_temperature_range[1],
               returned.in.strain.optimal_temperature_range[2])) =>
          /\ _temperature_response_factor(InstanceOf(returned.in)) =
                 _salinity_response_factor(InstanceOf(TemperatureAsSalinity(returned.in)))
          /\ _temperature_response_factor(InstanceOf(returned.in)) =
                 BellShape(returned.in.environment.surface_temperature_celsius,
                           returned.in.strain.optimal_temperature_range[1],
                           returned.in.strain.optimal_temperature_range[2])

\* The salinity sits on the lower end of its range, where the factor is
\* 3/4, and the temperature elsewhere in a different range.
C20_Witness ==
    /\ HasGrowthRate
    /\ returned.in.environment.salinity_ppt = returned.in.strain.optimal_salinity_range[1]
    /\ RLt(returned.in.strain.optimal_salinity_range[1],
           returned.in.strain.optimal_salinity_range[2])
    /\ returned.in.strain.optimal_salinity_range # returned.in.strain.optimal_temperature_range
    /\ _salinity_response_factor(InstanceOf(returned.in)) = Rat(3, 4)
    /\ _temperature_response_factor(InstanceOf(SalinityAsTemperature(returned.in))) = Rat(3, 4)
    /\ IsPositive(returned.out)

----------------------------------------------------------------------------
(* Sign of the growth rate *)

\* x lies in the range, its two ends included.
InsideRange(x, range) == RLe(range[1], x) /\ RLe(x, range[2])

GrowthConditionsMet(in) ==
    /\ InsideRange(in.environment.surface_temperature_celsius,
                   in.strain.optimal_temperature_range)
    /\ InsideRange(in.environment.salinity_ppt, in.strain.optimal_salinity_range)
    /\ IsPositive(in.environment.nutrient_nitrogen_umol_per_l)
    /\ IsPositive(in.environment.nutrient_phosphorus_umol_per_l)
    /\ IsPositive(in.environment.nutrient_iron_nmol_per_l)

\* C21: calculate_growth_rate never returns a negative value, whatever the
\* inputs; for a positive doubling time and ranges with min < max the value
\* is strictly positive exactly when temperature and salinity lie inside
\* their ranges (ends included) and all three nutrients are strictly
\* positive, whatever the euphotic depth.
C21_GrowthRateSign ==
    HasGrowthRate =>
        /\ IsNonNegative(returned.out)
        /\ (IsPositive(returned.in.strain.doubling_time_hours) /\ OrderedRanges(returned.in)) =>
              (IsPositive(returned.out) <=> GrowthConditionsMet(returned.in))

\* Growth is positive at the floor of the light factor (euphotic depth not
\* above 0) with the temperature on the lower end of its range.
C21_Witness ==
    /\ HasGrowthRate
    /\ IsPositive(returned.in.strain.doubling_time_hours)
    /\ OrderedRanges(returned.in)
    /\ RLe(returned.in.environment.euphotic_depth_m, Zero)
    /\ returned.in.environment.surface_temperature_celsius =
           returned.in.strain.optimal_temperature_range[1]
    /\ GrowthConditionsMet(returned.in)
    /\ IsPositive(returned.out)

----------------------------------------------------------------------------
(* Seeding biomass *)

HasBiomassRequired == returned.call = "calculate_biomass_required"

PositiveContentAndArea(in) ==
    /\ IsPositive(in.strain.carbon_content_percent)
    /\ IsPositive(in.operations.area_km2)

\* (125 - npp) / carbon_content_percent * 100 * area_km2 * 10^6 / 1000
SeedingReference(in, npp) ==
    RMul(RDiv(RSub(Int2R(125), npp), in.strain.carbon_content_percent),
         RMul(in.operations.area_km2, Int2R(100000)))

NPPValues == {Int2R(n) : n \in {0, 50, 100, 124, 125, 126, 200}}

\* C22: for a positive carbon content and area, calculate_biomass_required
\* returns 0 exactly when NPP >= 125 and otherwise the strictly positive
\* (125 - NPP) / carbon_content_percent * 100 * area_km2 * 10^6 / 1000,
\* which never increases with NPP; a scenario with zero growth is charged
\* cultivation and delivery for the whole gap of 125 over the whole area.
C22_BiomassRequired ==
    /\ (HasBiomassRequired /\ PositiveContentAndArea(returned.in)) =>
          /\ returned.out = Zero <=>
                 RLe(Int2R(125), calculate_net_primary_productivity(InstanceOf(returned.in)))
          /\ RLt(calculate_net_primary_productivity(InstanceOf(returned.in)), Int2R(125)) =>
                 /\ returned.out =
                        SeedingReference(returned.in,
                            calculate_net_primary_productivity(InstanceOf(returned.in)))
                 /\ IsPositive(returned.out)
          /\ \A n1, n2 \in NPPValues \cup
                     {calculate_net_primary_productivity(InstanceOf(returned.in))} :
                 RLe(n1, n2) =>
                     RLe(biomass_required_body(InstanceOf(returned.in), n2),
                         biomass_required_body(InstanceOf(returned.in), n1))
    /\ (/\ HasCosts
        /\ PositiveContentAndArea(returned.in)
        /\ calculate_growth_rate(InstanceOf(returned.in)) = Zero) =>
          /\ returned.out.cultivation =
                 RMul(SeedingReference(returned.in, Zero),
                      returned.in.operations.cultivation_cost_per_kg)
          /\ returned.out.delivery =
                 RMul(SeedingReference(returned.in, Zero),
                      returned.in.operations.delivery_cost_per_kg)
          /\ IsPositive(returned.in.operations.cultivation_cost_per_kg) =>
                 IsPositive(returned.out.cultivation)
          /\ IsPositive(returned.in.operations.delivery_cost_per_kg) =>
                 IsPositive(returned.out.delivery)

\* Biomass was asked for at a site whose NPP is positive and below 125.
C22_Witness ==
    /\ HasBiomassRequired
    /\ PositiveContentAndArea(returned.in)
    /\ IsPositive(calculate_net_primary_productivity(InstanceOf(returned.in)))
    /\ RLt(calculate_net_primary_productivity(InstanceOf(returned.in)), Int2R(125))
    /\ IsPositive(returned.out)
    /\ RLt(returned.out, SeedingReference(returned.in, Zero))

----------------------------------------------------------------------------
(* The carbon chain: NPP, export, survival, sequestered mass, CO2 *)

\* 0 <= flux <= npp * export_fraction <= npp, and the two mass identities
\* of the Metrics record m.
CarbonChain(in, m, flux) ==
    /\ IsNonNegative(flux)
    /\ RLe(flux, RMul(m.npp_g_c_per_m2_per_year, in.strain.export_fraction))
    /\ RLe(RMul(m.npp_g_c_per_m2_per_year, in.strain.export_fraction),
           m.npp_g_c_per_m2_per_year)
    /\ m.carbon_sequestered_kg_per_year =
           RMulDiv(flux, RMul(in.operations.area_km2, Int2R(1000000)), Int2R(1000))
    /\ m.co2_removed_tonnes_per_year =
           RMulDiv(m.carbon_sequestered_kg_per_year, Rat(367, 100), Int2R(1000))

\* exp(-0.1 * sinking_time_days) is below the smallest positive float.
SurvivalUnderflows(in) ==
    RLt(Int2R(EXP_UNDERFLOW),
        RMul(D(1, 10), RDiv(in.environment.sequestration_depth_m,
                            in.strain.sinking_rate_m_per_day)))

\* C23 (as stated): for every valid input 0 <= flux <= NPP * export_fraction
\* <= NPP, the survival fraction lies in (0,1], and the Metrics satisfy
\* co2_removed = carbon_sequestered * 3.67 / 1000 with
\* carbon_sequestered = flux * area_km2 * 10^6 / 1000.
C23_SurvivalFractionIsPositive ==
    (HasMetrics /\ ValidInputs(returned.in)) =>
        /\ CarbonChain(returned.in, returned.out,
                       calculate_carbon_export(InstanceOf(returned.in)))
        /\ IsPositive(survival_fraction(InstanceOf(returned.in)))
        /\ RLe(survival_fraction(InstanceOf(returned.in)), One)

\* C23 (amended): for every valid input 0 <= flux <= NPP * export_fraction
\* <= NPP and the two mass identities hold; the survival fraction lies in
\* [0,1] and is 0 exactly when 0.1 * sinking_time_days exceeds 745, where
\* the exponential underflows; the flux is then 0 whatever the NPP.
C23_CarbonIsNeverCreated ==
    (HasMetrics /\ ValidInputs(returned.in)) =>
        /\ CarbonChain(returned.in, returned.out,
                       calculate_carbon_export(InstanceOf(returned.in)))
        /\ IsNonNegative(survival_fraction(InstanceOf(returned.in)))
        /\ RLe(survival_fraction(InstanceOf(returned.in)), One)
        /\ survival_fraction(InstanceOf(returned.in)) = Zero <=>
               SurvivalUnderflows(returned.in)
        /\ SurvivalUnderflows(returned.in) =>
               returned.out.co2_removed_tonnes_per_year = Zero

\* A valid slowly sinking strain at a productive site: the survival
\* fraction is 0 and no CO2 is removed although NPP and export are positive.
C23_Witness ==
    /\ HasMetrics
    /\ ValidInputs(returned.in)
    /\ SurvivalUnderflows(returned.in)
    /\ survival_fraction(InstanceOf(returned.in)) = Zero
    /\ IsPositive(returned.out.npp_g_c_per_m2_per_year)
    /\ IsPositive(returned.in.strain.export_fraction)
    /\ returned.out.co2_removed_tonnes_per_year = Zero

----------------------------------------------------------------------------
(* The preset tables: create_sample_strains and create_sample_environments *)
(* build a dictionary of three records.  Objects live in the heap and are  *)
(* named by their position in it; a dictionary maps its keys to positions. *)

\* The AlgaeStrain(...) literals of create_sample_strains.
PresetStrains ==
    [fast_growing_cyanobacteria |->
        [name                      |-> "Fast-growing Cyanobacteria",
         carbon_content_percent    |-> Int2R(45),
         doubling_time_hours       |-> Int2R(12),
         photosynthetic_efficiency |-> Rat(8, 10),
         sinking_rate_m_per_day    |-> Int2R(50),
         export_fraction           |-> Rat(4, 10),
         optimal_temperature_range |-> <<Int2R(20), Int2R(30)>>,
         optimal_salinity_range    |-> <<Int2R(30), Int2R(40)>>,
         genetic_kill_switch       |-> TRUE,
         r_and_d_cost_millions     |-> Int2R(15)],
     diatom_variant |->
        [name                      |-> "GM Diatom Variant",
         carbon_content_percent    |-> Int2R(52),
         doubling_time_hours       |-> Int2R(24),
         photosynthetic_efficiency |-> Rat(9, 10),
         sinking_rate_m_per_day    |-> Int2R(100),
         export_fraction           |-> Rat(6, 10),
         optimal_temperature_range |-> <<Int2R(15), Int2R(25)>>,
         optimal_salinity_range    |-> <<Int2R(25), Int2R(35)>>,
         genetic_kill_switch       |-> TRUE,
         r_and_d_cost_millions     |-> Int2R(20)],
     conservative_strain |->
        [name                      |-> "Conservative GM Algae",
         carbon_content_percent    |-> Int2R(40),
         doubling_time_hours       |-> Int2R(48),
         photosynthetic_efficiency |-> Rat(7, 10),
         sinking_rate_m_per_day    |-> Int2R(25),
         export_fraction           |-> Rat(3, 10),
         optimal_temperature_range |-> <<Int2R(18), Int2R(28)>>,
         optimal_salinity_range    |-> <<Int2R(28), Int2R(38)>>,
         genetic_kill_switch       |-> TRUE,
         r_and_d_cost_millions     |-> Int2R(10)]]

\* The EnvironmentalConditions(...) literals of create_sample_environments.
PresetEnvironments ==
    [tropical_ocean |->
        [euphotic_depth_m               |-> Int2R(80),
         surface_temperature_celsius    |-> Int2R(28),
         salinity_ppt                   |-> Int2R(35),
         nutrient_nitrogen_umol_per_l   |-> Int2R(2),
         nutrient_phosphorus_umol_per_l |-> Rat(2, 10),
         nutrient_iron_nmol_per_l       |-> Rat(5, 100),
         mixing_depth_m                 |-> Int2R(50),
         current_speed_m_per_s          |-> Rat(1, 10),
         sequestration_depth_m          |-> Int2R(1000)],
     temperate_ocean |->
        [euphotic_depth_m               |-> Int2R(60),
         surface_temperature_celsius    |-> Int2R(15),
         salinity_ppt                   |-> Int2R(33),
         nutrient_nitrogen_umol_per_l   |-> Int2R(5),
         nutrient_phosphorus_umol_per_l |-> Rat(4, 10),
         nutrient_iron_nmol_per_l       |-> Rat(8, 100),
         mixing_depth_m                 |-> Int2R(100),
         current_speed_m_per_s          |-> Rat(2, 10),
         sequestration_depth_m          |-> Int2R(1500)],
     nutrient_rich |->
        [euphotic_depth_m               |-> Int2R(40),
         surface_temperature_celsius    |-> Int2R(20),
         salinity_ppt                   |-> Int2R(34),
         nutrient_nitrogen_umol_per_l   |-> Int2R(10),
         nutrient_phosphorus_umol_per_l |-> Rat(8, 10),
         nutrient_iron_nmol_per_l       |-> Rat(12, 100),
         mixing_depth_m                 |-> Int2R(75),
         current_speed_m_per_s          |-> Rat(15, 100),
         sequestration_depth_m          |-> Int2R(1200)]]

\* The keys of the two dictionary literals, in the order they are written.
StrainKeys == <<"fast_growing_cyanobacteria", "diatom_variant", "conservative_strain">>

EnvironmentKeys == <<"tropical_ocean", "temperate_ocean", "nutrient_rich">>

KeyIndex(keys, k) == CHOOSE i \in DOMAIN keys : keys[i] = k

\* Number of calls of the preset functions the caller makes.
MaxPresetCalls == 2

PresetCalls == Cardinality({r \in DOMAIN heap : heap[r].kind = "dict"})

\* The dictionary literal evaluated on the heap h: one new record per key,
\* then the new dictionary that maps each key to its record.
BuildTable(h, keys, presets, kind) ==
    h \o [i \in DOMAIN keys |-> [kind |-> kind, fields |-> presets[keys[i]]]]
      \o <<[kind  |-> "dict",
            of    |-> kind,
            items |-> [k \in {keys[i] : i \in DOMAIN keys} |->
                          Len(h) + KeyIndex(keys, k)]]>>

\* The dictionaries of records of the given kind on the heap.
TablesOf(kind) == {r \in DOMAIN heap : heap[r].kind = "dict" /\ heap[r].of = kind}

\* The first table of records of the given kind that was built.
FirstTableOf(kind) == CHOOSE r \in TablesOf(kind) : \A q \in TablesOf(kind) : r <= q

\* Variant that builds its records once and puts the same ones into the
\* dictionary of every later call.
CreateSampleStrainsSharedRecords ==
    /\ PresetCalls < MaxPresetCalls
    /\ heap' =
           IF TablesOf("AlgaeStrain") = {}
           THEN BuildTable(heap, StrainKeys, PresetStrains, "AlgaeStrain")
           ELSE heap \o <<[kind  |-> "dict",
                           of    |-> "AlgaeStrain",
                           items |-> [k \in {StrainKeys[i] : i \in DOMAIN StrainKeys} |->
                                         FirstTableOf("AlgaeStrain") - Len(StrainKeys) - 1
                                             + KeyIndex(StrainKeys, k)]]>>
    /\ returned' = [call |-> "create_sample_strains", out |-> Len(heap')]
    /\ error' = "none"
    /\ UNCHANGED <<strain, environment, operations, model, kept, threads>>

\* strains = create_sample_strains()
CreateSampleStrains ==
    /\ PresetCalls < MaxPresetCalls
    /\ heap' = BuildTable(heap, StrainKeys, PresetStrains, "AlgaeStrain")
    /\ returned' = [call |-> "create_sample_strains", out |-> Len(heap) + Len(StrainKeys) + 1]
    /\ error' = "none"
    /\ UNCHANGED <<strain, environment, operations, model, kept, threads>>

\* environments = create_sample_environments()
CreateSampleEnvironments ==
    /\ PresetCalls < MaxPresetCalls
    /\ heap' = BuildTable(heap, EnvironmentKeys, PresetEnvironments,
                          "EnvironmentalConditions")
    /\ returned' = [call |-> "create_sample_environments",
                    out |-> Len(heap) + Len(EnvironmentKeys) + 1]
    /\ error' = "none"
    /\ UNCHANGED <<strain, environment, operations, model, kept, threads>>

\* The tables the caller holds: the one returned last and the one kept.
HeldTables == {r.out : r \in {x \in {returned, kept} : x # NoResult}}

\* table[key].doubling_time_hours = 72 on a strain of a held table
SetPresetDoublingTime(table, key) ==
    /\ table \in HeldTables
    /\ heap[table].of = "AlgaeStrain"
    /\ key \in DOMAIN heap[table].items
    /\ heap' = [heap EXCEPT ![heap[table].items[key]].fields.doubling_time_hours = Int2R(72)]
    /\ UNCHANGED <<strain, environment, operations, model, returned, error, kept, threads>>

\* table[key].surface_temperature_celsius = 10 on a site of a held table
SetPresetTemperature(table, key) ==
    /\ table \in HeldTables
    /\ heap[table].of = "EnvironmentalConditions"
    /\ key \in DOMAIN heap[table].items
    /\ heap' = [heap EXCEPT
                   ![heap[table].items[key]].fields.surface_temperature_celsius = Int2R(10)]
    /\ UNCHANGED <<strain, environment, operations, model, returned, error, kept, threads>>

\* table[first] = table[second]: the caller rebinds the first key of a held
\* table to the record of its second key.
RebindPresetEntry(table) ==
    /\ table \in HeldTables
    /\ heap' = [heap EXCEPT ![table].items =
                   IF heap[table].of = "AlgaeStrain"
                   THEN [@ EXCEPT ![StrainKeys[1]] = heap[table].items[StrainKeys[2]]]
                   ELSE [@ EXCEPT ![EnvironmentKeys[1]] =
                                      heap[table].items[EnvironmentKeys[2]]]]
    /\ UNCHANGED <<strain, environment, operations, model, returned, error, kept, threads>>

InitPresets ==
    /\ strain = BaseStrain
    /\ environment = BaseEnvironment
    /\ operations = BaseOperations
    /\ model = NoModel
    /\ returned = NoResult
    /\ error = "none"
    /\ kept = NoResult
    /\ threads = NoThreads
    /\ heap = NoObjects

NextPresets ==
    \/ CreateSampleStrains
    \/ CreateSampleEnvironments
    \/ KeepResult
    \/ \E table \in DOMAIN heap, key \in {StrainKeys[i] : i \in DOMAIN StrainKeys} :
           SetPresetDoublingTime(table, key)
    \/ \E table \in DOMAIN heap, key \in {EnvironmentKeys[i] : i \in DOMAIN EnvironmentKeys} :
           SetPresetTemperature(table, key)
    \/ \E table \in DOMAIN heap : RebindPresetEntry(table)

SpecPresets == InitPresets /\ [][NextPresets]_vars

----------------------------------------------------------------------------
(* Properties of the preset tables *)

\* The table at reference d of heap new holds exactly the presets, in
\* records and a dictionary that heap old does not contain, and every object
\* of old is still what it was.
FreshPresetTable(old, new, d, presets, kind) ==
    /\ d \in DOMAIN new
    /\ d \notin DOMAIN old
    /\ new[d].kind = "dict"
    /\ DOMAIN new[d].items = DOMAIN presets
    /\ \A k \in DOMAIN presets :
          /\ new[d].items[k] \in DOMAIN new
          /\ new[d].items[k] \notin DOMAIN old
          /\ new[new[d].items[k]] = [kind |-> kind, fields |-> presets[k]]
    /\ \A k1, k2 \in DOMAIN presets : k1 # k2 => new[d].items[k1] # new[d].items[k2]
    /\ \A r \in DOMAIN old : new[r] = old[r]

\* C24: whatever the caller did to the records and tables of earlier calls,
\* a call of create_sample_strains or create_sample_environments returns a
\* table with the original preset values, made of records and a dictionary
\* that no earlier result contains.
C24_PresetCallsReturnFreshPresets ==
    [][/\ CreateSampleStrains =>
              FreshPresetTable(heap, heap', returned'.out, PresetStrains, "AlgaeStrain")
       /\ CreateSampleEnvironments =>
              FreshPresetTable(heap, heap', returned'.out, PresetEnvironments,
                               "EnvironmentalConditions")]_vars

\* The caller changed a strain of a kept table and rebound its first key;
\* the table returned by the later call is another object and holds the
\* presets.
C24_Witness ==
    /\ kept # NoResult
    /\ kept.call = "create_sample_strains"
    /\ returned.call = "create_sample_strains"
    /\ kept.out < returned.out
    /\ heap[heap[kept.out].items["diatom_variant"]].fields.doubling_time_hours = Int2R(72)
    /\ heap[kept.out].items["fast_growing_cyanobacteria"] =
           heap[kept.out].items["diatom_variant"]
    /\ \A k \in DOMAIN PresetStrains :
          heap[heap[returned.out].items[k]].fields = PresetStrains[k]

====
